---- MODULE Spec2Model ----
(***************************************************************************)
(* Job execution orchestrator of borderless-server: BuildService           *)
(* (StartBuild, executeBuild / executeClaudeCLI, failBuild, CancelBuild,   *)
(* logBuildEvent) together with the HTTP handler that creates a job.       *)
(*                                                                         *)
(* One job is followed from its creation request to the end of its         *)
(* execution task, interleaved with CancelBuild calls, with the two        *)
(* output readers of the execution task and with the end of the creating   *)
(* request (whose context the external process is bound to).               *)
(*                                                                         *)
(* Further specifications share the variables of the module:               *)
(*   SpecStream  the job's output stream, BuildHandler.StreamBuildOutput   *)
(*               with its goroutine monitorBuildLogs;                      *)
(*   SpecChat    one interactive turn, ChatHandler.StreamClaudeChat;       *)
(*   SpecZip     snapshots, utils.UnZipFile and utils.ZipFolder with       *)
(*               runGitCommit between them;                                *)
(*   SpecArgs    the argument vector, BuildService.buildClaudeCLIArgs;     *)
(*   SpecLog     concurrent logBuildEvent calls of one job;                *)
(*   SpecMutex   buildMutex and activeBuilds;                              *)
(*   SpecJoin    the join of the two output readers, with fairness;        *)
(*   SpecTurns   concurrent interactive turns of one project.              *)
(***************************************************************************)
EXTENDS Integers, Sequences, FiniteSets, Bags, TLC

\* ---------------------------------------------------------------- bounds
\* lines the external process may emit on each of its two streams
MaxLines == 1
\* CancelBuild calls issued for the job
MaxCancels == 2

\* readings of the wall clock while a job writes its log
MaxClock == 2
\* rows a job writes to build_logs
MaxRows == 3
\* CancelBuild calls in flight at once next to the execution task
MaxCallers == 2
\* lines a pipe holds before the process blocks writing to it
MaxUnread == 1
\* lines outCh holds before a reader blocks sending to it (128 in the code)
OutChCap == 1
\* interactive turns in flight at once for one project
MaxTurns == 2
\* tools named in each of the allowed and disallowed lists of a request
MaxTools == 1

\* ------------------------------------------------------------- constants
Streams == {"stdout", "stderr"}

\* The goroutines that call logBuildEvent while a job runs: the two output
\* readers of executeBuild and the request goroutine of CancelBuild.
LogWriters == Streams \cup {"cancel"}

\* The goroutines that touch activeBuilds: the execution task of the job and
\* the request goroutines of concurrent CancelBuild calls. Goroutine 0 is the
\* execution task, 1..MaxCallers are the calls.
Goroutines == 0..MaxCallers

\* models.BuildStatus; "none" stands for "no record persisted yet"
BuildStatusPending   == "pending"
BuildStatusRunning   == "running"
BuildStatusCompleted == "completed"
BuildStatusFailed    == "failed"
BuildStatusCancelled == "cancelled"
BuildStatus == {BuildStatusPending, BuildStatusRunning, BuildStatusCompleted,
                BuildStatusFailed, BuildStatusCancelled}
Terminal == {BuildStatusCompleted, BuildStatusFailed, BuildStatusCancelled}

\* A nullable field (*int, *string, *time.Time) is the empty set or a singleton.
Null == {}
Some(x) == {x}

\* models.Build: the fields the orchestrator writes.
NoBuild == [Status |-> "none", Output |-> <<>>, Error |-> Null,
            ExitCode |-> Null, ProcessID |-> Null,
            StartedAt |-> Null, CompletedAt |-> Null]
NewBuild == [NoBuild EXCEPT !.Status = BuildStatusPending]

VARIABLES
    intent,        \* what the creation request asked for
    hpc,           \* position of the creating HTTP handler
    observed,      \* status serialised into the creation response
    reqCtx,        \* context of the creating request: "live" or "done"
    build,         \* the *models.Build shared by StartBuild's caller and the execution task
    db,            \* the persisted row of table builds
    seen,          \* every status the persisted row has had
    logs,          \* the rows of table build_logs (a bag: a table has no order)
    epc,           \* position of the execution task
    failMsg,       \* argument of the pending failBuild call
    waitErr,       \* result of cmd.Wait()
    activeBuilds,  \* job ids that have a handle in BuildService.activeBuilds
    cmdProcess,    \* cmd.Process of the handle: "nil" or "set"
    proc,          \* the OS process: "none", "running", "exited", "reaped"
    exitStatus,    \* how the process ended: Null, or its exit code (-1: killed by a signal)
    emitted,       \* number of lines the process has written, per stream
    pipe,          \* lines written by the process and not yet read, per stream
    rpc,           \* position of each reader goroutine
    rline,         \* line each reader holds
    racy,          \* readers whose WriteString overlaps the other reader's
    outputBuffer,  \* the bytes.Buffer shared by the two readers
    cpc,           \* position of the CancelBuild call in progress
    clocal,        \* the models.Build that call has read
    ckilled,       \* that call's Kill hit a process that was still running
    returned,      \* the CancelBuild calls that have returned, in order
    sctx,          \* context of the streaming request: "live" or "done"
    spc,           \* position of StreamBuildOutput
    sexit,         \* how StreamBuildOutput returned
    mpc,           \* position of monitorBuildLogs
    mbatch,        \* rows monitorBuildLogs has queried and not yet sent
    lastLogID,     \* monitorBuildLogs' lastLogID (0 is uuid.Nil)
    updateChan,    \* rows buffered in updateChan
    closes,        \* close(updateChan) calls made so far
    crashed,       \* a goroutine panicked with nobody to recover it
    events,        \* the events written to the streaming client
    buildLogs,     \* the rows of build_logs of the job, by timestamp
    keepalives,    \* keepalive timers that have fired
    kpc,           \* position of StreamClaudeChat
    kexit,         \* how StreamClaudeChat returned
    storageRow,    \* the project's row of storage_locations: Null or a row
    storageLoc,    \* the handler's storageLoc, read when the turn starts
    workDir,       \* the working directory exists
    outCh,         \* lines buffered in outCh
    readersClosed, \* the handler's readersClosed
    assistantAccum, \* the lines added to assistantAccum
    objectStore,   \* object names uploaded to the object store
    persisted,     \* outcome of the persistence step
    zpc,           \* how far a snapshot has gone: unpacked, committed, packed
    archive,       \* the entries of the snapshot, in order
    fsys,          \* the file system: the nodes that exist
    zerr,          \* what UnZipFile returned
    outZip,        \* the entries of the archive ZipFolder wrote
    modified,      \* the tool has written into the working directory
    options,       \* the ClaudeCLIOptions handed to buildClaudeCLIArgs
    args,          \* the argument vector it returned, once it has
    clock,         \* what time.Now() returns
    creating,      \* per log writer: the timestamp of the row it is inserting
    buildLogRows,  \* build_logs of one job: timestamps in insertion order
    buildMutex,    \* the goroutine holding BuildService.buildMutex, if any
    at,            \* per goroutine: the statement it executes next
    exists,        \* per CancelBuild call: the local `exists`
    joinMode,      \* which join is followed: the job's or the turn's
    joinProc,      \* the process whose two streams are joined
    streamOpen,    \* the streams the process has not closed itself
    unread,        \* per stream: lines in the pipe the reader has not read
    queued,        \* lines in outCh
    joinReader,    \* per stream: where its reader goroutine is
    joined,        \* readers the joining task has counted
    finalized,     \* the job or turn has been finalized
    turnAt,        \* per concurrent turn of one project: how far it has gone
    sharedDir,     \* the project's working directory: absent, or its content
    remoteZip      \* the content of the project's snapshot in the object store

vars == <<intent, hpc, observed, reqCtx, build, db, seen, logs, epc, failMsg,
          waitErr, activeBuilds, cmdProcess, proc, exitStatus, emitted, pipe, rpc,
          rline, racy, outputBuffer, cpc, clocal, ckilled, returned,
          sctx, spc, sexit, mpc, mbatch, lastLogID, updateChan, closes, crashed,
          events, buildLogs, keepalives, kpc, kexit, storageRow, storageLoc,
          workDir, outCh, readersClosed, assistantAccum, objectStore, persisted,
          zpc, archive, fsys, zerr, outZip, modified, options, args,
          clock, creating, buildLogRows, buildMutex, at, exists,
          joinMode, joinProc, streamOpen, unread, queued, joinReader, joined,
          finalized, turnAt, sharedDir, remoteZip>>

jobVars    == <<intent, hpc, observed, reqCtx>>
recordVars == <<build, db, seen>>
procVars   == <<proc, exitStatus, emitted, pipe>>
readerVars == <<rpc, rline, racy, outputBuffer>>
cancelVars == <<cpc, clocal, ckilled, returned>>
taskVars   == <<logs, epc, failMsg, waitErr, activeBuilds, cmdProcess>>
streamVars == <<sctx, spc, sexit, mpc, mbatch, lastLogID, updateChan, closes,
                crashed, events, buildLogs, keepalives>>

\* What the job execution orchestrator never touches.
chatVars == <<kpc, kexit, storageRow, storageLoc, workDir, outCh, readersClosed,
              assistantAccum, objectStore, persisted>>
zipVars == <<zpc, archive, fsys, zerr, outZip, modified>>
\* The state of the checks that stand apart from the four handlers.
extraVars == <<options, args, clock, creating, buildLogRows, buildMutex, at,
               exists, joinMode, joinProc, streamOpen, unread, queued,
               joinReader, joined, finalized, turnAt, sharedDir, remoteZip>>
sideVars == <<streamVars, chatVars, zipVars, extraVars>>

\* ------------------------------------------------------------ persistence
\* database.DB.Save(build): gorm writes every column of the struct it is given.
Save(b) ==
    /\ db' = b
    /\ seen' = seen \cup {b.Status}

\* logBuildEvent: one row appended to build_logs.
logBuildEvent(level, message) ==
    logs' = logs (+) SetToBag({[Level |-> level, Message |-> message]})

\* failBuild: the fields set before its Save.
FailedBuild(b, errorMsg) ==
    [b EXCEPT !.Status = BuildStatusFailed, !.CompletedAt = Some("now"),
              !.Error = Some(errorMsg), !.ExitCode = Some(1)]

\* ExitCodeOf with the default exit code 0 in place of 1.
ExitCodeOfDefaultZero(err) ==
    IF err.exitError THEN err.code ELSE 0

\* The exit code executeBuild derives from the error of cmd.Wait():
\* 1 unless the error is an *exec.ExitError, whose ExitCode() it takes.
ExitCodeOf(err) ==
    IF err.exitError THEN err.code ELSE 1

\* executeBuild after cmd.Wait(): the fields set before the final Save.
FinishedBuild(b, err, output) ==
    LET c == [b EXCEPT !.CompletedAt = Some("now"), !.Output = output]
    IN  IF err.isErr
        THEN [c EXCEPT !.Status = BuildStatusFailed,
                       !.ExitCode = Some(ExitCodeOf(err)),
                       !.Error = Some(err.text)]
        ELSE [c EXCEPT !.Status = BuildStatusCompleted, !.ExitCode = Some(0)]

\* CancelBuild: the fields set on the row it has read, before its Save.
CancelledBuild(b) ==
    [b EXCEPT !.Status = BuildStatusCancelled, !.CompletedAt = Some("now")]

\* cmd.Wait() on a process that ended with exit status st, under a context in
\* state ctx.  A non-zero or signalled end is an *exec.ExitError.  When the
\* context is done, the context watcher of exec.CommandContext has signalled
\* the process; if the process had ended with status 0 by then, Wait reports
\* either no error or the context's error, which is no *exec.ExitError.
NoErr == [isErr |-> FALSE, exitError |-> FALSE, code |-> 0, text |-> ""]
CtxErr == [isErr |-> TRUE, exitError |-> FALSE, code |-> 0, text |-> "context canceled"]
WaitResults(st, ctx) ==
    IF st = 0
    THEN IF ctx = "done" THEN {NoErr, CtxErr} ELSE {NoErr}
    ELSE {[isErr |-> TRUE, exitError |-> TRUE, code |-> st,
           text |-> IF st = -1 THEN "signal: killed" ELSE "exit status 1"]}

\* ------------------------------------------------------------------ Init
\* The argument vector the job runs: that of a command or of a tool invocation,
\* or the empty vector of a shell command made of white space only.
Intents == {"argv", "blank"}

\* No streaming request has been made.
StreamIdle ==
    /\ sctx = "live"
    /\ spc = "idle"
    /\ sexit = "none"
    /\ mpc = "unborn"
    /\ mbatch = <<>>
    /\ lastLogID = 0
    /\ updateChan = <<>>
    /\ closes = 0
    /\ crashed = FALSE
    /\ events = <<>>
    /\ buildLogs = <<>>
    /\ keepalives = 0

\* No interactive turn has been requested.
ChatIdle ==
    /\ kpc = "idle"
    /\ kexit = "none"
    /\ storageRow = Null
    /\ storageLoc = [ID |-> 0, NetworkPath |-> ""]
    /\ workDir = FALSE
    /\ outCh = <<>>
    /\ readersClosed = 0
    /\ assistantAccum = <<>>
    /\ objectStore = {}
    /\ persisted = "none"

\* No snapshot is being unpacked or packed.
ZipIdle ==
    /\ zpc = "idle"
    /\ archive = <<>>
    /\ fsys = {}
    /\ zerr = "nil"
    /\ outZip = {}
    /\ modified = FALSE

ExtraIdle ==
    /\ args = Null
    /\ clock = 0
    /\ creating = [w \in LogWriters |-> Null]
    /\ buildLogRows = <<>>
    /\ buildMutex = Null
    /\ at = [t \in Goroutines |-> 1]
    /\ exists = [t \in Goroutines |-> FALSE]
    /\ joinMode = "none"
    /\ joinProc = "none"
    /\ streamOpen = Streams
    /\ unread = [s \in Streams |-> 0]
    /\ queued = 0
    /\ joinReader = [s \in Streams |-> "unborn"]
    /\ joined = 0
    /\ finalized = FALSE
    /\ turnAt = [t \in 1..MaxTurns |-> "idle"]
    /\ sharedDir = Null
    /\ remoteZip = {0}

\* The job execution orchestrator before any request.
InitBuild ==
    /\ intent = "none"
    /\ hpc = "idle"
    /\ observed = "none"
    /\ reqCtx = "live"
    /\ build = NoBuild
    /\ db = NoBuild
    /\ seen = {}
    /\ logs = EmptyBag
    /\ epc = "idle"
    /\ failMsg = ""
    /\ waitErr = NoErr
    /\ activeBuilds = {}
    /\ cmdProcess = "nil"
    /\ proc = "none"
    /\ exitStatus = Null
    /\ emitted = [s \in Streams |-> 0]
    /\ pipe = [s \in Streams |-> <<>>]
    /\ rpc = [s \in Streams |-> "unborn"]
    /\ rline = [s \in Streams |-> <<>>]
    /\ racy = {}
    /\ outputBuffer = <<>>
    /\ cpc = "idle"
    /\ clocal = NoBuild
    /\ ckilled = FALSE
    /\ returned = <<>>

Init ==
    /\ InitBuild
    /\ StreamIdle
    /\ ChatIdle
    /\ ZipIdle
    /\ ExtraIdle
    /\ options = Null

\* ------------------------------------------- the creating request handler
\* BuildHandler.StartBuild / StartBuildWithClaude calling
\* BuildService.StartBuild / StartBuildWithClaudeCLI: the row is created in
\* pending, the execution task is started with the request's context, and the
\* pointer to the record is returned.
StartBuild ==
    /\ hpc = "idle"
    /\ \E kind \in Intents, created \in BOOLEAN :
        IF created
        THEN /\ intent' = kind
             /\ build' = NewBuild
             /\ db' = NewBuild
             /\ seen' = {BuildStatusPending}
             /\ epc' = "save_running"
             /\ hpc' = "respond"
             /\ UNCHANGED <<observed, reqCtx>>
        ELSE \* MkdirAll or DB.Create failed: the error is returned, no job exists
             /\ hpc' = "returned"
             /\ observed' = "error"
             /\ reqCtx' = "done"
             /\ UNCHANGED <<intent, build, db, seen, epc>>
    /\ UNCHANGED <<logs, failMsg, waitErr, activeBuilds, cmdProcess>>
    /\ UNCHANGED cancelVars
    /\ UNCHANGED procVars
    /\ UNCHANGED readerVars
    /\ UNCHANGED sideVars

\* c.JSON(http.StatusCreated, gin.H{"build": build}): the handler serialises the
\* record it was handed, which is the struct the execution task is writing;
\* then it returns, and net/http cancels the request's context.
Respond ==
    /\ hpc = "respond"
    /\ observed' = build.Status
    /\ hpc' = "returned"
    /\ reqCtx' = "done"
    /\ UNCHANGED <<intent, logs, epc, failMsg, waitErr, activeBuilds, cmdProcess>>
    /\ UNCHANGED <<recordVars, procVars, readerVars, cancelVars>>
    /\ UNCHANGED sideVars

\* ----------------------------------------------------- the execution task
\* executeBuild / executeClaudeCLI run the same steps; executeClaudeCLI has no
\* empty-command return.  epc names the step the task executes next.  A call
\* of logBuildEvent belongs to the step of the statement next to it.

\* build.Status = running; build.StartedAt = &now; database.DB.Save(build);
\* logBuildEvent("Build started"); strings.Fields(build.Command): an empty
\* argument vector goes to failBuild.
ExecSaveRunning ==
    /\ epc = "save_running"
    /\ build' = [build EXCEPT !.Status = BuildStatusRunning, !.StartedAt = Some("now")]
    /\ Save(build')
    /\ logBuildEvent("info", "Build started")
    /\ IF intent = "blank"
       THEN /\ failMsg' = "Empty command"
            /\ epc' = "fail"
       ELSE /\ epc' = "register"
            /\ UNCHANGED failMsg
    /\ UNCHANGED <<waitErr, activeBuilds, cmdProcess>>
    /\ UNCHANGED <<jobVars, procVars, readerVars, cancelVars>>
    /\ UNCHANGED sideVars

\* exec.CommandContext(ctx, ...); s.activeBuilds[build.ID] = cmd under buildMutex
ExecRegister ==
    /\ epc = "register"
    /\ activeBuilds' = activeBuilds \cup {"job"}
    /\ epc' = "start"
    /\ UNCHANGED <<logs, failMsg, waitErr, cmdProcess>>
    /\ UNCHANGED <<jobVars, recordVars, procVars, readerVars, cancelVars>>
    /\ UNCHANGED sideVars

\* The messages failBuild is given when the process cannot be brought up.
PipeErrors == {"Failed to create stdout pipe", "Failed to create stderr pipe"}
StartNotFound == "Failed to start command: executable file not found"
StartCancelled == "Failed to start command: context canceled"
SpawnErrors == PipeErrors \cup {StartNotFound}

\* cmd.StdoutPipe(); cmd.StderrPipe(); cmd.Start().  Creating a pipe may fail.
\* Start fails when the executable cannot be run, and fails with ctx.Err() when
\* the context is already done.  Each failure goes to failBuild; otherwise the
\* process runs and cmd.Process is set.
ExecStart ==
    /\ epc = "start"
    /\ \E outcome \in {"ok"} \cup SpawnErrors :
        IF outcome = "ok" /\ reqCtx = "live"
        THEN /\ proc' = "running"
             /\ cmdProcess' = "set"
             /\ epc' = "save_pid"
             /\ UNCHANGED failMsg
        ELSE /\ failMsg' = IF outcome = "ok" THEN StartCancelled ELSE outcome
             /\ epc' = "fail"
             /\ UNCHANGED <<proc, cmdProcess>>
    /\ UNCHANGED <<logs, waitErr, activeBuilds, exitStatus, emitted, pipe>>
    /\ UNCHANGED <<jobVars, recordVars, readerVars, cancelVars>>
    /\ UNCHANGED sideVars

\* failBuild(build, errorMsg): status failed, exit code 1, error message;
\* Save; logBuildEvent; the task returns.
failBuild ==
    /\ epc = "fail"
    /\ build' = FailedBuild(build, failMsg)
    /\ Save(build')
    /\ logBuildEvent("error", failMsg)
    /\ epc' = "done"
    /\ UNCHANGED <<failMsg, waitErr, activeBuilds, cmdProcess>>
    /\ UNCHANGED <<jobVars, procVars, readerVars, cancelVars>>
    /\ UNCHANGED sideVars

\* build.ProcessID = &processID; database.DB.Save(build); logBuildEvent;
\* the two readers are started.
ExecSavePid ==
    /\ epc = "save_pid"
    /\ build' = [build EXCEPT !.ProcessID = Some("pid")]
    /\ Save(build')
    /\ logBuildEvent("info", "Process started")
    /\ rpc' = [s \in Streams |-> "scan"]
    /\ epc' = "wg_wait"
    /\ UNCHANGED <<failMsg, waitErr, activeBuilds, cmdProcess, rline, racy, outputBuffer>>
    /\ UNCHANGED <<jobVars, procVars, cancelVars>>
    /\ UNCHANGED sideVars

\* wg.Wait(): both readers have returned
ExecWgWait ==
    /\ epc = "wg_wait"
    /\ \A s \in Streams : rpc[s] = "done"
    /\ epc' = "cmd_wait"
    /\ UNCHANGED <<logs, failMsg, waitErr, activeBuilds, cmdProcess>>
    /\ UNCHANGED <<jobVars, recordVars, procVars, readerVars, cancelVars>>
    /\ UNCHANGED sideVars

\* err = cmd.Wait(): returns once the process has ended, and reaps it
ExecCmdWait ==
    /\ epc = "cmd_wait"
    /\ proc = "exited"
    /\ proc' = "reaped"
    /\ \E st \in exitStatus : \E err \in WaitResults(st, reqCtx) : waitErr' = err
    /\ epc' = "unregister"
    /\ UNCHANGED <<logs, failMsg, activeBuilds, cmdProcess, exitStatus, emitted, pipe>>
    /\ UNCHANGED <<jobVars, recordVars, readerVars, cancelVars>>
    /\ UNCHANGED sideVars

\* delete(s.activeBuilds, build.ID) under buildMutex
ExecUnregister ==
    /\ epc = "unregister"
    /\ activeBuilds' = activeBuilds \ {"job"}
    /\ epc' = "final_save"
    /\ UNCHANGED <<logs, failMsg, waitErr, cmdProcess>>
    /\ UNCHANGED <<jobVars, recordVars, procVars, readerVars, cancelVars>>
    /\ UNCHANGED sideVars

\* completed-at, output, status, exit code and error are set on the struct,
\* the outcome is logged, database.DB.Save(build); the task returns.
ExecFinalSave ==
    /\ epc = "final_save"
    /\ build' = FinishedBuild(build, waitErr, outputBuffer)
    /\ Save(build')
    /\ IF waitErr.isErr
       THEN logBuildEvent("error", "Build failed")
       ELSE logBuildEvent("info", "Build completed successfully")
    /\ epc' = "done"
    /\ UNCHANGED <<failMsg, waitErr, activeBuilds, cmdProcess>>
    /\ UNCHANGED <<jobVars, procVars, readerVars, cancelVars>>
    /\ UNCHANGED sideVars

\* --------------------------------------------------- the external process
Line(s, n) == <<s, n>>

\* The process writes one more line to one of its streams.
ProcEmit(s) ==
    /\ proc = "running"
    /\ emitted[s] < MaxLines
    /\ emitted' = [emitted EXCEPT ![s] = @ + 1]
    /\ pipe' = [pipe EXCEPT ![s] = Append(@, Line(s, emitted[s] + 1))]
    /\ UNCHANGED <<proc, exitStatus, logs, epc, failMsg, waitErr, activeBuilds, cmdProcess>>
    /\ UNCHANGED <<jobVars, recordVars, readerVars, cancelVars>>
    /\ UNCHANGED sideVars

\* The process exits by itself, with status 0 or 1.
ProcExit ==
    /\ proc = "running"
    /\ \E code \in {0, 1} : exitStatus' = Some(code)
    /\ proc' = "exited"
    /\ UNCHANGED <<emitted, pipe, logs, epc, failMsg, waitErr, activeBuilds, cmdProcess>>
    /\ UNCHANGED <<jobVars, recordVars, readerVars, cancelVars>>
    /\ UNCHANGED sideVars

\* exec.CommandContext: once the context is done the running process is killed.
CtxKill ==
    /\ proc = "running"
    /\ reqCtx = "done"
    /\ exitStatus' = Some(-1)
    /\ proc' = "exited"
    /\ UNCHANGED <<emitted, pipe, logs, epc, failMsg, waitErr, activeBuilds, cmdProcess>>
    /\ UNCHANGED <<jobVars, recordVars, readerVars, cancelVars>>
    /\ UNCHANGED sideVars

\* ------------------------------------------------- the two reader goroutines
Other(s) == CHOOSE t \in Streams : t # s
LevelOf(s) == IF s = "stdout" THEN "info" ELSE "error"

\* scanner.Scan() returns a line; line := scanner.Text(); the reader enters
\* outputBuffer.WriteString.  No lock guards the buffer: a call that begins
\* while the other reader is inside its own call races with it.
ReaderScan(s) ==
    /\ rpc[s] = "scan"
    /\ pipe[s] # <<>>
    /\ rline' = [rline EXCEPT ![s] = Head(pipe[s])]
    /\ pipe' = [pipe EXCEPT ![s] = Tail(@)]
    /\ rpc' = [rpc EXCEPT ![s] = "write"]
    /\ racy' = IF rpc[Other(s)] = "write" THEN Streams ELSE racy
    /\ UNCHANGED <<proc, exitStatus, emitted, outputBuffer, logs, epc, failMsg,
                   waitErr, activeBuilds, cmdProcess>>
    /\ UNCHANGED <<jobVars, recordVars, cancelVars>>
    /\ UNCHANGED sideVars

\* outputBuffer.WriteString(line + "\n") completes, and the line is logged.
\* A racing write either lands or is lost.
ReaderWrite(s) ==
    /\ rpc[s] = "write"
    /\ \E lands \in BOOLEAN :
        /\ lands \/ s \in racy
        /\ outputBuffer' = IF lands THEN Append(outputBuffer, rline[s]) ELSE outputBuffer
    /\ racy' = racy \ {s}
    /\ logBuildEvent(LevelOf(s), "line")
    /\ rpc' = [rpc EXCEPT ![s] = "scan"]
    /\ UNCHANGED <<rline, epc, failMsg, waitErr, activeBuilds, cmdProcess>>
    /\ UNCHANGED <<jobVars, recordVars, procVars, cancelVars>>
    /\ UNCHANGED sideVars

\* scanner.Scan() returns false: the pipe is drained and the process has ended.
ReaderEOF(s) ==
    /\ rpc[s] = "scan"
    /\ pipe[s] = <<>>
    /\ proc \in {"exited", "reaped"}
    /\ rpc' = [rpc EXCEPT ![s] = "done"]
    /\ UNCHANGED <<rline, racy, outputBuffer, logs, epc, failMsg, waitErr,
                   activeBuilds, cmdProcess>>
    /\ UNCHANGED <<jobVars, recordVars, procVars, cancelVars>>
    /\ UNCHANGED sideVars

\* --------------------------------------------------------------- CancelBuild
\* The calls are issued one after another, at most MaxCancels of them.
Returns(res) ==
    /\ returned' = Append(returned, [result |-> res, killedLive |-> ckilled])
    /\ cpc' = "idle"

\* cmd, exists := s.activeBuilds[buildID] under buildMutex; without a handle
\* the call returns "build not found or not running".
CancelLookup ==
    /\ cpc = "idle"
    /\ db.Status # "none"
    /\ Len(returned) < MaxCancels
    /\ ckilled' = FALSE
    /\ clocal' = NoBuild
    /\ IF "job" \in activeBuilds
       THEN /\ cpc' = "kill"
            /\ UNCHANGED returned
       ELSE /\ returned' = Append(returned, [result |-> "not_running", killedLive |-> FALSE])
            /\ UNCHANGED cpc
    /\ UNCHANGED <<logs, epc, failMsg, waitErr, activeBuilds, cmdProcess>>
    /\ UNCHANGED <<jobVars, recordVars, procVars, readerVars>>
    /\ UNCHANGED sideVars

\* cmd.Process.Kill(): a nil cmd.Process is a nil dereference (the call
\* panics); a running process is killed; a process that has ended and is not
\* yet waited for takes the signal without error; after cmd.Wait() the call
\* fails with os.ErrProcessDone and CancelBuild returns "failed to kill process".
CancelKill ==
    /\ cpc = "kill"
    /\ IF cmdProcess = "nil"
       THEN /\ Returns("panic")
            /\ UNCHANGED <<proc, exitStatus, ckilled>>
       ELSE IF proc = "running"
       THEN /\ proc' = "exited"
            /\ exitStatus' = Some(-1)
            /\ ckilled' = TRUE
            /\ cpc' = "read"
            /\ UNCHANGED returned
       ELSE IF proc = "exited"
       THEN /\ cpc' = "read"
            /\ UNCHANGED <<proc, exitStatus, ckilled, returned>>
       ELSE /\ Returns("kill_error")
            /\ UNCHANGED <<proc, exitStatus, ckilled>>
    /\ UNCHANGED <<clocal, emitted, pipe, logs, epc, failMsg, waitErr, activeBuilds,
                   cmdProcess>>
    /\ UNCHANGED <<jobVars, recordVars, readerVars>>
    /\ UNCHANGED sideVars

\* database.DB.Where("id = ?", buildID).First(&build): the row as it is now,
\* or an error that CancelBuild returns.
CancelRead ==
    /\ cpc = "read"
    /\ \E ok \in BOOLEAN :
        IF ok
        THEN /\ clocal' = db
             /\ cpc' = "save"
             /\ UNCHANGED returned
        ELSE /\ Returns("db_error")
             /\ UNCHANGED clocal
    /\ UNCHANGED <<ckilled, logs, epc, failMsg, waitErr, activeBuilds, cmdProcess>>
    /\ UNCHANGED <<jobVars, recordVars, procVars, readerVars>>
    /\ UNCHANGED sideVars

\* build.Status = cancelled; build.CompletedAt = &now; database.DB.Save(&build);
\* logBuildEvent("warn", "Build cancelled by user"); return nil
CancelSave ==
    /\ cpc = "save"
    /\ Save(CancelledBuild(clocal))
    /\ logBuildEvent("warn", "Build cancelled by user")
    /\ Returns("ok")
    /\ UNCHANGED <<build, clocal, ckilled, epc, failMsg, waitErr, activeBuilds, cmdProcess>>
    /\ UNCHANGED <<jobVars, procVars, readerVars>>
    /\ UNCHANGED sideVars

\* ------------------------------------------------------------ specification
Next ==
    \/ StartBuild
    \/ Respond
    \/ ExecSaveRunning
    \/ ExecRegister
    \/ ExecStart
    \/ failBuild
    \/ ExecSavePid
    \/ ExecWgWait
    \/ ExecCmdWait
    \/ ExecUnregister
    \/ ExecFinalSave
    \/ ProcExit
    \/ CtxKill
    \/ \E s \in Streams : ProcEmit(s)
    \/ \E s \in Streams : ReaderScan(s)
    \/ \E s \in Streams : ReaderWrite(s)
    \/ \E s \in Streams : ReaderEOF(s)
    \/ CancelLookup
    \/ CancelKill
    \/ CancelRead
    \/ CancelSave

Spec == Init /\ [][Next]_vars

\* =========================================== the job's output stream (SSE)
\* BuildHandler.StreamBuildOutput and its goroutine monitorBuildLogs, for one
\* streaming request on the job.  The job itself is followed only as far as
\* the stream can see it: its row in builds, its rows in build_logs and its
\* external process.

\* rows BuildService adds to build_logs while the stream is followed
MaxLogs == 2
\* keepalive timers that fire while the stream is followed
MaxKeepalives == 1

\* The rows a job writes: a line of the process (stdout at level info, stderr
\* at level error), a stdout line that parsed as a JSON object, logged as
\* "Claude response: <line>" (with or without a session_id in the object), and
\* a stdout line that merely contains the words "Claude response:".
LogKinds ==
    {[Level |-> "info",  Message |-> "plain"],
     [Level |-> "error", Message |-> "plain"],
     [Level |-> "info",  Message |-> "lookalike"],
     [Level |-> "info",  Message |-> "response"],
     [Level |-> "info",  Message |-> "response_sid"]}

\* One event written to the client: its name, the row or line it forwards (0
\* when it forwards none) and the text it carries.
Event(name, id, data) == [event |-> name, id |-> id, data |-> data]

\* StreamBuildOutput, the body of "case log, ok := <-updateChan" for ok = true:
\* the events one row is forwarded as.  The tests are, in order: the level is
\* info and the message contains "Claude response:"; the text from the first
\* "{" on unmarshals into a JSON object; the object has a string session_id.
SSEEvents(log) ==
    IF log.Level = "info"
       /\ log.Message \in {"lookalike", "response", "response_sid"}
       /\ log.Message \in {"response", "response_sid"}
    THEN <<Event("claude_response", log.ID, log.Message)>> \o
         (IF log.Message = "response_sid"
          THEN <<Event("session_created", log.ID, log.Message)>> ELSE <<>>)
    ELSE <<Event("build_log", log.ID, log.Message)>>

\* models.Build.IsCompleted
IsCompleted(b) == b.Status \in Terminal

\* "id > ?" of the polling query; without it when lastLogID is uuid.Nil.
NewLogs(rows, last) ==
    SelectSeq(rows, LAMBDA r : last = 0 \/ r.ID > last)

streamRest == <<jobVars, readerVars, cancelVars, taskVars, build, emitted, pipe,
                chatVars, zipVars, extraVars>>

\* ---- the job, as the stream sees it
\* BuildService.StartBuild: the row is created in pending.
JobCreated ==
    /\ db.Status = "none"
    /\ Save(NewBuild)
    /\ UNCHANGED <<streamVars, streamRest, proc, exitStatus>>

\* executeBuild: running is saved and the process is started.
JobRuns ==
    /\ db.Status = BuildStatusPending
    /\ Save([db EXCEPT !.Status = BuildStatusRunning])
    /\ proc' = "running"
    /\ UNCHANGED <<streamVars, streamRest, exitStatus>>

\* logBuildEvent: a row with a fresh random ID (BuildLog.BeforeCreate) and the
\* latest timestamp.
JobLogs ==
    /\ db.Status = BuildStatusRunning
    /\ Len(buildLogs) < MaxLogs
    /\ \E k \in LogKinds,
          id \in (1..MaxLogs) \ {buildLogs[i].ID : i \in 1..Len(buildLogs)} :
          buildLogs' = Append(buildLogs,
                              [ID |-> id, Level |-> k.Level, Message |-> k.Message])
    /\ UNCHANGED <<sctx, spc, sexit, mpc, mbatch, lastLogID, updateChan, closes,
                   crashed, events, keepalives>>
    /\ UNCHANGED <<streamRest, db, seen, proc, exitStatus>>

\* executeBuild after cmd.Wait(): the process has ended and the final status
\* is saved.
JobEnds ==
    /\ db.Status = BuildStatusRunning
    /\ \E st \in {0, 1} :
          /\ proc' = "reaped"
          /\ exitStatus' = Some(st)
          /\ Save([db EXCEPT !.Status = IF st = 0 THEN BuildStatusCompleted
                                          ELSE BuildStatusFailed,
                             !.ExitCode = Some(st)])
    /\ UNCHANGED <<streamVars, streamRest>>

\* ---- StreamBuildOutput
\* The request arrives: updateChan is made and monitorBuildLogs is started.
StreamBuildOutput ==
    /\ spc = "idle"
    /\ db.Status # "none"
    /\ spc' = "status"
    /\ mpc' = "initial"
    /\ UNCHANGED <<sctx, sexit, mbatch, lastLogID, updateChan, closes, crashed,
                   events, buildLogs, keepalives>>
    /\ UNCHANGED <<streamRest, db, seen, proc, exitStatus>>

\* GetBuild, and the build_status event when it returned no error.
StreamStatus ==
    /\ spc = "status"
    /\ \E ok \in BOOLEAN :
          events' = IF ok THEN Append(events, Event("build_status", 0, "")) ELSE events
    /\ spc' = "loop"
    /\ UNCHANGED <<sctx, sexit, mpc, mbatch, lastLogID, updateChan, closes,
                   crashed, buildLogs, keepalives>>
    /\ UNCHANGED <<streamRest, db, seen, proc, exitStatus>>

\* case log, ok := <-updateChan with a row in the buffer.
StreamRecv ==
    /\ spc = "loop"
    /\ updateChan # <<>>
    /\ events' = events \o SSEEvents(Head(updateChan))
    /\ updateChan' = Tail(updateChan)
    /\ UNCHANGED <<sctx, spc, sexit, mpc, mbatch, lastLogID, closes, crashed,
                   buildLogs, keepalives>>
    /\ UNCHANGED <<streamRest, db, seen, proc, exitStatus>>

\* The same case on the closed and drained channel: build_complete, return,
\* and the deferred close(updateChan).
StreamComplete ==
    /\ spc = "loop"
    /\ updateChan = <<>>
    /\ closes > 0
    /\ events' = Append(events, Event("build_complete", 0, ""))
    /\ spc' = "returned"
    /\ sexit' = "complete"
    /\ closes' = closes + 1
    /\ UNCHANGED <<sctx, mpc, mbatch, lastLogID, updateChan, crashed, buildLogs,
                   keepalives>>
    /\ UNCHANGED <<streamRest, db, seen, proc, exitStatus>>

\* case <-c.Request.Context().Done(): return, and the deferred close.
StreamDisconnected ==
    /\ spc = "loop"
    /\ sctx = "done"
    /\ spc' = "returned"
    /\ sexit' = "disconnect"
    /\ closes' = closes + 1
    /\ UNCHANGED <<sctx, mpc, mbatch, lastLogID, updateChan, crashed, events,
                   buildLogs, keepalives>>
    /\ UNCHANGED <<streamRest, db, seen, proc, exitStatus>>

\* case <-time.After(30 * time.Second)
StreamKeepalive ==
    /\ spc = "loop"
    /\ keepalives < MaxKeepalives
    /\ keepalives' = keepalives + 1
    /\ events' = Append(events, Event("keepalive", 0, ""))
    /\ UNCHANGED <<sctx, spc, sexit, mpc, mbatch, lastLogID, updateChan, closes,
                   crashed, buildLogs>>
    /\ UNCHANGED <<streamRest, db, seen, proc, exitStatus>>

\* The client goes away: net/http cancels the request's context.
ClientDisconnects ==
    /\ spc \in {"status", "loop"}
    /\ sctx = "live"
    /\ sctx' = "done"
    /\ UNCHANGED <<spc, sexit, mpc, mbatch, lastLogID, updateChan, closes,
                   crashed, events, buildLogs, keepalives>>
    /\ UNCHANGED <<streamRest, db, seen, proc, exitStatus>>

\* ---- monitorBuildLogs
\* return, with its deferred close(updateChan): closing a closed channel
\* panics, and nothing recovers a panic of this goroutine.
MonitorReturns ==
    /\ mpc' = "returned"
    /\ mbatch' = <<>>
    /\ closes' = closes + 1
    /\ crashed' = (crashed \/ closes > 0)

\* GetBuildLogs(buildID, 100): on an error the goroutine returns; otherwise
\* lastLogID is the ID of the last row read.
MonitorInitial ==
    /\ mpc = "initial"
    /\ \/ /\ MonitorReturns
          /\ UNCHANGED lastLogID
       \/ /\ mbatch' = buildLogs
          /\ lastLogID' = IF buildLogs = <<>> THEN 0
                          ELSE buildLogs[Len(buildLogs)].ID
          /\ mpc' = IF buildLogs = <<>> THEN "tick" ELSE "send_initial"
          /\ UNCHANGED <<closes, crashed>>
    /\ UNCHANGED <<sctx, spc, sexit, updateChan, events, buildLogs, keepalives>>
    /\ UNCHANGED <<streamRest, db, seen, proc, exitStatus>>

\* select { case updateChan <- log: ...; case <-ctx.Done(): return } for the
\* next row of the batch.  A send on a closed channel panics.
MonitorSend ==
    /\ mpc \in {"send_initial", "send_new"}
    /\ \/ /\ closes = 0
          /\ updateChan' = Append(updateChan, Head(mbatch))
          /\ mbatch' = Tail(mbatch)
          /\ lastLogID' = IF mpc = "send_new" THEN Head(mbatch).ID ELSE lastLogID
          /\ mpc' = IF Tail(mbatch) # <<>> THEN mpc
                    ELSE IF mpc = "send_initial" THEN "tick" ELSE "check"
          /\ UNCHANGED <<closes, crashed>>
       \/ /\ closes > 0
          /\ crashed' = TRUE
          /\ mpc' = "returned"
          /\ mbatch' = <<>>
          /\ UNCHANGED <<updateChan, lastLogID, closes>>
       \/ /\ sctx = "done"
          /\ MonitorReturns
          /\ UNCHANGED <<updateChan, lastLogID>>
    /\ UNCHANGED <<sctx, spc, sexit, events, buildLogs, keepalives>>
    /\ UNCHANGED <<streamRest, db, seen, proc, exitStatus>>

\* The polling loop: ctx.Done(), or a tick whose query fails (continue) or
\* yields the rows to send.
MonitorTick ==
    /\ mpc = "tick"
    /\ \/ /\ sctx = "done"
          /\ MonitorReturns
          /\ UNCHANGED lastLogID
       \/ /\ UNCHANGED <<mpc, mbatch, lastLogID, closes, crashed>>
       \/ /\ mbatch' = NewLogs(buildLogs, lastLogID)
          /\ mpc' = IF NewLogs(buildLogs, lastLogID) = <<>> THEN "check"
                    ELSE "send_new"
          /\ UNCHANGED <<lastLogID, closes, crashed>>
    /\ UNCHANGED <<sctx, spc, sexit, updateChan, events, buildLogs, keepalives>>
    /\ UNCHANGED <<streamRest, db, seen, proc, exitStatus>>

\* "Check if build is completed": the row is read; on IsCompleted the
\* goroutine sleeps two seconds and returns.
MonitorCheck ==
    /\ mpc = "check"
    /\ \E ok \in BOOLEAN :
          IF ok /\ IsCompleted(db)
          THEN MonitorReturns
          ELSE /\ mpc' = "tick"
               /\ UNCHANGED <<mbatch, closes, crashed>>
    /\ UNCHANGED <<sctx, spc, sexit, lastLogID, updateChan, events, buildLogs,
                   keepalives>>
    /\ UNCHANGED <<streamRest, db, seen, proc, exitStatus>>

NextStream ==
    \/ JobCreated
    \/ JobRuns
    \/ JobLogs
    \/ JobEnds
    \/ StreamBuildOutput
    \/ StreamStatus
    \/ StreamRecv
    \/ StreamComplete
    \/ StreamDisconnected
    \/ StreamKeepalive
    \/ ClientDisconnects
    \/ MonitorInitial
    \/ MonitorSend
    \/ MonitorTick
    \/ MonitorCheck

SpecStream == Init /\ [][NextStream]_vars

\* ============================================ the interactive turn (SSE)
\* ChatHandler.StreamClaudeChat for one turn on a project: the working
\* directory is materialized, the tool is started under the request's context,
\* two readers feed outCh, the main loop forwards lines as events, and after
\* both readers have signalled done the turn is finalized: cmd.Wait, git
\* commit, pack, upload, snapshot reference, cleanup, complete.

\* What a line of the tool is to the main loop: a JSON object (with or without
\* a session_id), other text, or (on stderr here) the empty line.
TextsOf(s) == IF s = "stdout" THEN {"json", "json_sid", "plain"} ELSE {"", "text"}

\* The events the main loop writes for one line taken from outCh; the third
\* test is json.Unmarshal([]byte(l.text), &payload) == nil.
ChatEvents(l) ==
    IF l.text = "" THEN <<>>
    ELSE IF l.isErr THEN <<Event("claude_error", l.n, l.text)>>
    ELSE IF l.text \in {"json", "json_sid"}
         THEN <<Event("claude_response", l.n, l.text)>>
         ELSE <<Event("claude_output", l.n, l.text)>>

\* The rows of storage_locations a project can have when a turn starts: none,
\* one without a network path, one whose network path names a snapshot.
StorageRows ==
    {Null, Some([ID |-> 1, NetworkPath |-> ""]),
           Some([ID |-> 1, NetworkPath |-> "snapshot"])}

\* database.DB.Where("project_id = ?", projectID).First(&storageLoc): the row,
\* or the zero value left in storageLoc when there is none.
First(row) ==
    IF row = Null THEN [ID |-> 0, NetworkPath |-> ""] ELSE CHOOSE r \in row : TRUE

\* getOrComposeNetworkPath
getOrComposeNetworkPath(loc) ==
    IF loc.NetworkPath # "" THEN loc.NetworkPath ELSE "composed"

\* DB.Model(&StorageLocation{}).Where("id = ?", id).Update("network_path", np):
\* the rows whose id matches are updated, which may be none.
UpdateNetworkPath(row, id, np) ==
    IF row # Null /\ First(row).ID = id
    THEN Some([First(row) EXCEPT !.NetworkPath = np])
    ELSE row

\* Where the handler goes after ZipFolder, with and without an error, ...
AfterZipAlwaysUploads(err) == "upload"

AfterZip(err) == IF err THEN "cleanup" ELSE "upload"

\* ... and after the persistence step.
AfterPersistenceKeepsOnError(err) == IF err THEN "complete" ELSE "cleanup"

AfterPersistence(err) == "cleanup"

chatRest == <<jobVars, recordVars, cancelVars, taskVars, rline, racy,
              outputBuffer, spc, sexit, mpc, mbatch, lastLogID, updateChan,
              closes, crashed, buildLogs, zipVars, extraVars>>

\* The request passes authentication, ownership and parsing (or is answered
\* with an error), the storage location is read and the working directory is
\* made.
ChatRequest ==
    /\ kpc = "idle"
    /\ \/ /\ kpc' = "returned"
          /\ kexit' = "error"
          /\ UNCHANGED <<storageRow, storageLoc, workDir>>
       \/ /\ \E row \in StorageRows :
                /\ storageRow' = row
                /\ storageLoc' = First(row)
          /\ workDir' = TRUE
          /\ kpc' = "materialize"
          /\ UNCHANGED kexit
    /\ UNCHANGED <<outCh, readersClosed, assistantAccum, objectStore, persisted>>
    /\ UNCHANGED <<sctx, events, keepalives, procVars, rpc, chatRest>>

\* The snapshot is downloaded and unpacked, or else the template is unpacked;
\* a failure is answered with an error.
ChatMaterialize ==
    /\ kpc = "materialize"
    /\ \E ok \in BOOLEAN :
          IF ok THEN kpc' = "spawn" /\ UNCHANGED kexit
          ELSE kpc' = "returned" /\ kexit' = "error"
    /\ UNCHANGED <<storageRow, storageLoc, workDir, outCh, readersClosed,
                   assistantAccum, objectStore, persisted>>
    /\ UNCHANGED <<sctx, events, keepalives, procVars, rpc, chatRest>>

\* exec.CommandContext(c.Request.Context(), ...), the pipes, cmd.Start() and
\* the two reader goroutines.  Start fails when the context is already done.
ChatSpawn ==
    /\ kpc = "spawn"
    /\ \E ok \in IF sctx = "done" THEN {FALSE} ELSE BOOLEAN :
          IF ok
          THEN /\ proc' = "running"
               /\ rpc' = [s \in Streams |-> "scan"]
               /\ kpc' = "loop"
               /\ UNCHANGED kexit
          ELSE /\ kpc' = "returned"
               /\ kexit' = "error"
               /\ UNCHANGED <<proc, rpc>>
    /\ UNCHANGED <<storageRow, storageLoc, workDir, outCh, readersClosed,
                   assistantAccum, objectStore, persisted>>
    /\ UNCHANGED <<sctx, events, keepalives, exitStatus, emitted, pipe, chatRest>>

\* ---- the tool (it writes at most MaxLines + 1 lines in all)
ToolEmit(s) ==
    /\ kpc # "idle"
    /\ proc = "running"
    /\ emitted["stdout"] + emitted["stderr"] <= MaxLines
    /\ emitted' = [emitted EXCEPT ![s] = @ + 1]
    /\ \E t \in TextsOf(s) :
          pipe' = [pipe EXCEPT ![s] = Append(@, [isErr |-> s = "stderr",
                                                 text |-> t,
                                                 n |-> emitted[s] + 1])]
    /\ UNCHANGED <<chatVars, sctx, events, keepalives, proc, exitStatus, rpc,
                   chatRest>>

ToolExit ==
    /\ kpc # "idle"
    /\ proc = "running"
    /\ proc' = "exited"
    /\ \E st \in {0, 1} : exitStatus' = Some(st)
    /\ UNCHANGED <<chatVars, sctx, events, keepalives, emitted, pipe, rpc,
                   chatRest>>

\* The context watcher of exec.CommandContext.
ToolCtxKill ==
    /\ kpc # "idle"
    /\ proc = "running"
    /\ sctx = "done"
    /\ proc' = "exited"
    /\ exitStatus' = Some(-1)
    /\ UNCHANGED <<chatVars, sctx, events, keepalives, emitted, pipe, rpc,
                   chatRest>>

\* ---- the readers
\* scanner.Scan() yields a line; outCh <- line (128 slots, never full here).
ChatReaderScan(s) ==
    /\ rpc[s] = "scan"
    /\ kpc # "idle"
    /\ pipe[s] # <<>>
    /\ outCh' = Append(outCh, Head(pipe[s]))
    /\ pipe' = [pipe EXCEPT ![s] = Tail(@)]
    /\ UNCHANGED <<kpc, kexit, storageRow, storageLoc, workDir, readersClosed,
                   assistantAccum, objectStore, persisted>>
    /\ UNCHANGED <<sctx, events, keepalives, proc, exitStatus, emitted, rpc,
                   chatRest>>

\* scanner.Scan() reports the end of the stream; the reader goes on to the
\* send on the unbuffered channel done.
ChatReaderEOF(s) ==
    /\ rpc[s] = "scan"
    /\ kpc # "idle"
    /\ pipe[s] = <<>>
    /\ proc # "running"
    /\ rpc' = [rpc EXCEPT ![s] = "send_done"]
    /\ UNCHANGED <<chatVars, sctx, events, keepalives, procVars, chatRest>>

\* ---- the main loop
\* case l := <-outCh
ChatRecvLine ==
    /\ kpc = "loop"
    /\ outCh # <<>>
    /\ outCh' = Tail(outCh)
    /\ events' = events \o ChatEvents(Head(outCh))
    /\ assistantAccum' = IF Head(outCh).text # "" /\ ~Head(outCh).isErr
                         THEN Append(assistantAccum, Head(outCh).n)
                         ELSE assistantAccum
    /\ UNCHANGED <<kpc, kexit, storageRow, storageLoc, workDir, readersClosed,
                   objectStore, persisted>>
    /\ UNCHANGED <<sctx, keepalives, procVars, rpc, chatRest>>

\* case <-done: a reader's send completes; after the second the loop goes on
\* to finalize the turn.
ChatRecvDone ==
    /\ kpc = "loop"
    /\ \E s \in Streams :
          /\ rpc[s] = "send_done"
          /\ rpc' = [rpc EXCEPT ![s] = "returned"]
    /\ readersClosed' = readersClosed + 1
    /\ kpc' = IF readersClosed + 1 >= 2 THEN "wait" ELSE "loop"
    /\ UNCHANGED <<kexit, storageRow, storageLoc, workDir, outCh,
                   assistantAccum, objectStore, persisted>>
    /\ UNCHANGED <<sctx, events, keepalives, procVars, chatRest>>

\* case <-ticker.C
ChatKeepalive ==
    /\ kpc = "loop"
    /\ keepalives < MaxKeepalives
    /\ keepalives' = keepalives + 1
    /\ events' = Append(events, Event("keepalive", 0, ""))
    /\ UNCHANGED <<chatVars, sctx, procVars, rpc, chatRest>>

\* case <-c.Request.Context().Done(): cmd.Process.Kill() and return.
ChatDisconnected ==
    /\ kpc = "loop"
    /\ sctx = "done"
    /\ IF proc = "running"
       THEN proc' = "exited" /\ exitStatus' = Some(-1)
       ELSE UNCHANGED <<proc, exitStatus>>
    /\ kpc' = "returned"
    /\ kexit' = "disconnect"
    /\ UNCHANGED <<storageRow, storageLoc, workDir, outCh, readersClosed,
                   assistantAccum, objectStore, persisted>>
    /\ UNCHANGED <<sctx, events, keepalives, emitted, pipe, rpc, chatRest>>

\* The client goes away: net/http cancels the request's context.
ChatClientDisconnects ==
    /\ kpc \notin {"idle", "returned"}
    /\ sctx = "live"
    /\ sctx' = "done"
    /\ UNCHANGED <<chatVars, events, keepalives, procVars, rpc, chatRest>>

\* ---- the end of the turn
\* _ = cmd.Wait(), the assistant message, _ = runGitCommit(...).
ChatWait ==
    /\ kpc = "wait"
    /\ proc' = "reaped"
    /\ kpc' = "zip"
    /\ UNCHANGED <<kexit, storageRow, storageLoc, workDir, outCh, readersClosed,
                   assistantAccum, objectStore, persisted>>
    /\ UNCHANGED <<sctx, events, keepalives, exitStatus, emitted, pipe, rpc,
                   chatRest>>

\* utils.ZipFolder(workDir, tmpZip), and the upload_error event on an error.
ChatZip ==
    /\ kpc = "zip"
    /\ \E err \in BOOLEAN :
          /\ events' = IF err THEN Append(events, Event("upload_error", 0, ""))
                       ELSE events
          /\ persisted' = IF err THEN "zip_failed" ELSE persisted
          /\ kpc' = IF AfterZip(err) = "cleanup" THEN AfterPersistence(err)
                    ELSE AfterZip(err)
    /\ UNCHANGED <<kexit, storageRow, storageLoc, workDir, outCh, readersClosed,
                   assistantAccum, objectStore>>
    /\ UNCHANGED <<sctx, keepalives, procVars, rpc, chatRest>>

\* storage.UploadFile(...): the upload_error event on an error; otherwise the
\* composed network path is persisted if storageLoc had none.
ChatUpload ==
    /\ kpc = "upload"
    /\ \E err \in BOOLEAN :
          /\ events' = IF err THEN Append(events, Event("upload_error", 0, ""))
                       ELSE events
          /\ persisted' = IF err THEN "upload_failed"
                          ELSE IF persisted = "none" THEN "uploaded" ELSE persisted
          /\ objectStore' = IF err THEN objectStore
                            ELSE objectStore \cup {getOrComposeNetworkPath(storageLoc)}
          /\ storageRow' = IF ~err /\ storageLoc.NetworkPath = ""
                           THEN UpdateNetworkPath(storageRow, storageLoc.ID,
                                                  getOrComposeNetworkPath(storageLoc))
                           ELSE storageRow
          /\ kpc' = AfterPersistence(err)
    /\ UNCHANGED <<kexit, storageLoc, workDir, outCh, readersClosed,
                   assistantAccum>>
    /\ UNCHANGED <<sctx, keepalives, procVars, rpc, chatRest>>

\* _ = os.RemoveAll(workDir)
ChatCleanup ==
    /\ kpc = "cleanup"
    /\ workDir' = FALSE
    /\ kpc' = "complete"
    /\ UNCHANGED <<kexit, storageRow, storageLoc, outCh, readersClosed,
                   assistantAccum, objectStore, persisted>>
    /\ UNCHANGED <<sctx, events, keepalives, procVars, rpc, chatRest>>

\* event: complete, and return.
ChatComplete ==
    /\ kpc = "complete"
    /\ events' = Append(events, Event("complete", 0, ""))
    /\ kpc' = "returned"
    /\ kexit' = "complete"
    /\ UNCHANGED <<storageRow, storageLoc, workDir, outCh, readersClosed,
                   assistantAccum, objectStore, persisted>>
    /\ UNCHANGED <<sctx, keepalives, procVars, rpc, chatRest>>

NextChat ==
    \/ ChatRequest
    \/ ChatMaterialize
    \/ ChatSpawn
    \/ \E s \in Streams : ToolEmit(s)
    \/ ToolExit
    \/ ToolCtxKill
    \/ \E s \in Streams : ChatReaderScan(s)
    \/ \E s \in Streams : ChatReaderEOF(s)
    \/ ChatRecvLine
    \/ ChatRecvDone
    \/ ChatKeepalive
    \/ ChatDisconnected
    \/ ChatClientDisconnects
    \/ ChatWait
    \/ ChatZip
    \/ ChatUpload
    \/ ChatCleanup
    \/ ChatComplete

SpecChat == Init /\ [][NextChat]_vars

\* ====================================== snapshots: UnZipFile and ZipFolder
\* package utils (pkg/utils/folder.go) as StreamClaudeChat uses it: a snapshot
\* is unpacked into the working directory, the tool may write there, the
\* directory is committed with git and packed again.  A path is the sequence
\* of its components from the root; an archive entry has a name (a sequence
\* of components, ".." among them) and is a directory or a file.

\* entries of the snapshot
MaxEntries == 2

\* the working directory, /w
Dest == <<"w">>

\* The entries a snapshot is made of: a, a/b, d/, ../x, d/../../x, .DS_Store
\* and .git/config.
Entries ==
    {[name |-> <<"d">>, dir |-> TRUE]} \cup
    {[name |-> n, dir |-> FALSE] :
        n \in {<<"a">>, <<"a", "b">>, <<"..", "x">>, <<"d", "..", "..", "x">>,
               <<".DS_Store">>, <<".git", "config">>}}

Archives == UNION {[1..n -> Entries] : n \in 0..MaxEntries}

\* filepath.Clean on a rooted path: ".." removes the component before it and
\* is dropped at the root.
RECURSIVE CleanFrom(_, _)
CleanFrom(p, acc) ==
    IF p = <<>> THEN acc
    ELSE IF Head(p) = ".."
         THEN CleanFrom(Tail(p), IF acc = <<>> THEN <<>>
                                 ELSE SubSeq(acc, 1, Len(acc) - 1))
         ELSE CleanFrom(Tail(p), Append(acc, Head(p)))
Clean(p) == CleanFrom(p, <<>>)

\* strings.HasPrefix(t, d + "/") || t == d
IsPrefix(d, t) == Len(d) <= Len(t) /\ SubSeq(t, 1, Len(d)) = d

\* filepath.Dir
Parent(p) == SubSeq(p, 1, Len(p) - 1)

Node(p, kind) == [path |-> p, kind |-> kind]
KindsAt(fs, p) == {n.kind : n \in {m \in fs : m.path = p}}

\* os.MkdirAll(p): it fails when p or one of its ancestors is a file, and
\* otherwise makes the directories that are missing.
Ancestors(p) == {SubSeq(p, 1, k) : k \in 1..Len(p)}
MkdirAllFails(fs, p) == \E q \in Ancestors(p) : KindsAt(fs, q) \ {"dir"} # {}
MkdirAll(fs, p) == fs \cup {Node(q, "dir") : q \in Ancestors(p)}

\* One entry written at the resolved path t: the error, or the new tree.
\* os.OpenFile(t, O_WRONLY|O_CREATE|O_TRUNC) fails on a directory.
Extract(f, t, fs, mkParent) ==
    IF f.dir
    THEN IF MkdirAllFails(fs, t) THEN [err |-> "error", fs |-> fs]
         ELSE [err |-> "nil", fs |-> MkdirAll(fs, t)]
    ELSE IF MkdirAllFails(fs, Parent(t))
         THEN [err |-> "error", fs |-> fs]
         ELSE IF "dir" \in KindsAt(mkParent, t)
              THEN [err |-> "error", fs |-> mkParent]
              ELSE [err |-> "nil",
                    fs |-> {n \in mkParent : n.path # t} \cup {Node(t, "file")}]

\* UnZipFile (first copy): every name is joined to destPath and cleaned; an
\* entry that resolves outside destPath makes the function "return err" with
\* the nil err of filepath.Abs, leaving the entries after it unread.
RECURSIVE UnZipFile(_, _)
UnZipFile(entries, fs) ==
    IF entries = <<>> THEN [err |-> "nil", fs |-> fs]
    ELSE LET f == Head(entries)
             targetAbs == Clean(Dest \o f.name)
             r == Extract(f, targetAbs, fs, MkdirAll(fs, Parent(targetAbs)))
         IN  IF ~IsPrefix(Dest, targetAbs) THEN [err |-> "nil", fs |-> fs]
             ELSE IF r.err # "nil" THEN r
             ELSE UnZipFile(Tail(entries), r.fs)

\* isPathSafe (second copy): dest exists and dest + "/" is a prefix of the
\* target as written, ".." components included.
isPathSafe(fs, dest, target) ==
    /\ KindsAt(fs, dest) # {}
    /\ IsPrefix(dest, target)

\* UnZipFile (second copy): fpath is destPath + "/" + name as written; the
\* operating system resolves it when the file or directory is made.
RECURSIVE UnZipFileSecond(_, _)
UnZipFileSecond(entries, fs) ==
    IF entries = <<>> THEN [err |-> "nil", fs |-> fs]
    ELSE LET f == Head(entries)
             fpath == Dest \o f.name
             t == Clean(fpath)
             r == Extract(f, t, fs, MkdirAll(fs, Parent(t)))
         IN  IF ~isPathSafe(fs, Dest, fpath) THEN [err |-> "nil", fs |-> fs]
             ELSE IF r.err # "nil" THEN r
             ELSE UnZipFileSecond(Tail(entries), r.fs)

\* filepath.Rel(srcDir, path) for a path below srcDir
Rel(src, p) == SubSeq(p, Len(src) + 1, Len(p))
\* filepath.Base
Base(p) == p[Len(p)]
Junk == {".DS_Store", "Thumbs.db"}

\* ZipFolder (first copy): filepath.Walk over srcDir; the root, the nodes
\* whose base name is a junk name and the symbolic links get no entry, every
\* other node gets one under its relative path.
ZipFolder(fs, src) ==
    {[name |-> Rel(src, n.path), dir |-> n.kind = "dir"] :
        n \in {m \in fs : /\ IsPrefix(src, m.path)
                          /\ m.path # src
                          /\ Base(m.path) \notin Junk
                          /\ m.kind # "symlink"}}

\* What the tool may leave in the working directory: a file, a symbolic link,
\* a junk file.
ToolNodes ==
    {Node(Dest \o <<"n">>, "file"), Node(Dest \o <<"l">>, "symlink"),
     Node(Dest \o <<"Thumbs.db">>, "file")}

\* git init and git commit in the working directory.
GitNodes ==
    {Node(Dest \o <<".git">>, "dir"), Node(Dest \o <<".git", "HEAD">>, "file")}

zipRest == <<jobVars, recordVars, procVars, readerVars, cancelVars, taskVars,
             streamVars, chatVars, extraVars>>

\* The snapshot is unpacked with UnZipFile; an error ends the request.
UnpackSnapshot ==
    /\ zpc = "idle"
    /\ LET r == UnZipFile(archive, fsys)
       IN  /\ zerr' = r.err
           /\ fsys' = r.fs
           /\ zpc' = IF r.err = "nil" THEN "unpacked" ELSE "rejected"
    /\ UNCHANGED <<archive, outZip, modified, zipRest>>

\* The same with the second UnZipFile of the package.
UnpackSnapshotSecond ==
    /\ zpc = "idle"
    /\ LET r == UnZipFileSecond(archive, fsys)
       IN  /\ zerr' = r.err
           /\ fsys' = r.fs
           /\ zpc' = IF r.err = "nil" THEN "unpacked" ELSE "rejected"
    /\ UNCHANGED <<archive, outZip, modified, zipRest>>

\* The tool writes into the working directory.
ToolWrites ==
    /\ zpc = "unpacked"
    /\ \E n \in ToolNodes :
          /\ KindsAt(fsys, n.path) = {}
          /\ fsys' = fsys \cup {n}
    /\ modified' = TRUE
    /\ UNCHANGED <<zpc, archive, zerr, outZip, zipRest>>

\* runGitCommit: "git init" when there is no .git, "git add .", "git commit";
\* all best effort, so the directory may be left as it was.
runGitCommit ==
    /\ zpc = "unpacked"
    /\ \E ok \in BOOLEAN :
          fsys' = IF ok /\ ~MkdirAllFails(fsys, Dest \o <<".git">>)
                  THEN fsys \cup GitNodes ELSE fsys
    /\ zpc' = "committed"
    /\ UNCHANGED <<archive, zerr, outZip, modified, zipRest>>

\* utils.ZipFolder(workDir, tmpZip)
PackWorkDir ==
    /\ zpc = "committed"
    /\ outZip' = ZipFolder(fsys, Dest)
    /\ zpc' = "packed"
    /\ UNCHANGED <<archive, fsys, zerr, modified, zipRest>>

NextZip ==
    \/ UnpackSnapshot
    \/ UnpackSnapshotSecond
    \/ ToolWrites
    \/ runGitCommit
    \/ PackWorkDir

\* The working directory has been made and is empty; the snapshot is any
\* archive.
InitZip ==
    /\ InitBuild
    /\ StreamIdle
    /\ ChatIdle
    /\ ExtraIdle
    /\ options = Null
    /\ zpc = "idle"
    /\ archive \in Archives
    /\ fsys = {Node(Dest, "dir")}
    /\ zerr = "nil"
    /\ outZip = {}
    /\ modified = FALSE

SpecZip == InitZip /\ [][NextZip]_vars


\* ======================================================= argument vector
\* BuildService.buildClaudeCLIArgs, a pure function of the command, the
\* options and the MCP configuration of the service.

\* ClaudeCLIOptions as the service receives them, with the two other inputs
\* of buildClaudeCLIArgs: the command and the path getMCPConfigPath returns
\* ("" when hasMCPServers is false or no path is known). ToolsSettings is a
\* pointer: Null or the settings; each of its tool lists names up to MaxTools
\* tools.
ClaudeCLIOptions ==
    LET ToolLists == UNION {[1..n -> {"Bash"}] : n \in 0..MaxTools} IN
    [Resume : BOOLEAN, SessionID : {"", "sid"}, Model : {"", "opus"},
     PermissionMode : {"", "default", "plan", "acceptEdits"},
     ToolsSettings : {Null} \cup
         {Some(t) : t \in [SkipPermissions : BOOLEAN,
                           AllowedTools : ToolLists,
                           DisallowedTools : ToolLists]},
     Command : {"", "cmd"}, MCPConfig : {"", "mcp.json"}]

planModeTools == <<"Read", "Task", "exit_plan_mode", "TodoRead", "TodoWrite">>

buildClaudeCLIArgs(o) ==
    LET Each(flag, tools) ==
            [i \in 1..(2 * Len(tools)) |->
                IF i % 2 = 1 THEN flag ELSE tools[i \div 2]]
        resume == IF o.Resume /\ o.SessionID # ""
                  THEN <<"--resume", o.SessionID>> ELSE <<>>
        mcp == IF o.MCPConfig # "" THEN <<"--mcp-config", o.MCPConfig>>
               ELSE <<>>
        model == IF ~o.Resume
                 THEN <<"--model", IF o.Model = "" THEN "sonnet" ELSE o.Model>>
                 ELSE <<>>
        mode == IF o.PermissionMode # "" /\ o.PermissionMode # "default"
                THEN <<"--permission-mode", o.PermissionMode>> ELSE <<>>
        tools ==
            IF o.ToolsSettings = Null THEN <<>>
            ELSE LET settings == CHOOSE t \in o.ToolsSettings : TRUE
                 IN  IF settings.SkipPermissions /\ o.PermissionMode # "plan"
                     THEN <<"--dangerously-skip-permissions">>
                     ELSE Each("--allowedTools", settings.AllowedTools)
                          \o Each("--disallowedTools", settings.DisallowedTools)
                          \o (IF o.PermissionMode = "plan"
                              THEN Each("--allowedTools", planModeTools)
                              ELSE <<>>)
        print == IF o.Command # "" THEN <<"--print", "--", o.Command>>
                 ELSE <<>>
    IN  resume \o <<"--output-format", "stream-json", "--verbose">> \o mcp
        \o model \o mode \o tools \o print

\* executeClaudeCLI builds the argument vector of the process it starts.
BuildArgs ==
    /\ args = Null
    /\ args' = Some(buildClaudeCLIArgs(options))
    /\ UNCHANGED <<jobVars, recordVars, procVars, readerVars, cancelVars,
                   taskVars, streamVars, chatVars, zipVars, options, clock,
                   creating, buildLogRows, buildMutex, at, exists,
                   joinMode, joinProc, streamOpen, unread,
                   queued, joinReader, joined, finalized, turnAt,
                   sharedDir, remoteZip>>

InitArgs ==
    /\ InitBuild
    /\ StreamIdle
    /\ ChatIdle
    /\ ZipIdle
    /\ ExtraIdle
    /\ options \in ClaudeCLIOptions

SpecArgs == InitArgs /\ [][BuildArgs]_vars


\* ============================================================ log writes
\* logBuildEvent from concurrent goroutines. database.DB.Create runs the
\* BeforeCreate hook of the row, which reads the clock, and then the INSERT
\* statement; another goroutine's Create can run between the two.

\* Time passes.
ClockTick ==
    /\ clock < MaxClock
    /\ clock' = clock + 1
    /\ UNCHANGED <<jobVars, recordVars, procVars, readerVars, cancelVars,
                   taskVars, streamVars, chatVars, zipVars, options, args,
                   creating, buildLogRows, buildMutex, at, exists,
                   joinMode, joinProc, streamOpen, unread,
                   queued, joinReader, joined, finalized, turnAt,
                   sharedDir, remoteZip>>

\* BuildLog.BeforeCreate: bl.Timestamp = time.Now().
BeforeCreate(w) ==
    /\ creating[w] = Null
    /\ Len(buildLogRows)
         + Cardinality({x \in LogWriters : creating[x] # Null}) < MaxRows
    /\ creating' = [creating EXCEPT ![w] = Some(clock)]
    /\ UNCHANGED <<jobVars, recordVars, procVars, readerVars, cancelVars,
                   taskVars, streamVars, chatVars, zipVars, options, args,
                   clock, buildLogRows, buildMutex, at, exists,
                   joinMode, joinProc, streamOpen, unread,
                   queued, joinReader, joined, finalized, turnAt,
                   sharedDir, remoteZip>>

\* The INSERT of database.DB.Create: the row, stamped by the hook, is
\* appended to the table.
InsertBuildLog(w) ==
    /\ creating[w] # Null
    /\ buildLogRows' = buildLogRows \o
                         <<CHOOSE t \in creating[w] : TRUE>>
    /\ creating' = [creating EXCEPT ![w] = Null]
    /\ UNCHANGED <<jobVars, recordVars, procVars, readerVars, cancelVars,
                   taskVars, streamVars, chatVars, zipVars, options, args,
                   clock, buildMutex, at, exists,
                   joinMode, joinProc, streamOpen, unread,
                   queued, joinReader, joined, finalized, turnAt,
                   sharedDir, remoteZip>>

NextLog ==
    \/ ClockTick
    \/ \E w \in LogWriters : BeforeCreate(w)
    \/ \E w \in LogWriters : InsertBuildLog(w)

SpecLog == Init /\ [][NextLog]_vars


\* ============================================================ buildMutex
\* The statements of executeBuild (executeClaudeCLI has the same ones in the
\* same order) and of CancelBuild that take buildMutex, touch activeBuilds,
\* or do I/O: process start, wait and kill, database calls. Each goroutine
\* runs its statements in order; Lock blocks while another goroutine holds
\* the mutex.

executeBuildSteps ==
    <<"Lock", "insert", "Unlock", "Start", "Save", "Wait",
      "Lock", "delete", "Unlock", "Save">>

\* CancelBuild with the unlock deferred to its return.
CancelBuildStepsDeferredUnlock ==
    <<"Lock", "read", "Kill", "First", "Save", "Unlock">>

CancelBuildSteps ==
    <<"Lock", "read", "Unlock", "Kill", "First", "Save">>

\* The statement goroutine t executes next; "return" once it has returned.
Stmt(t) ==
    LET steps == IF t = 0 THEN executeBuildSteps ELSE CancelBuildSteps
    IN  IF at[t] > Len(steps) THEN "return" ELSE steps[at[t]]

\* The last statement of goroutine t.
Last(t) == Len(IF t = 0 THEN executeBuildSteps ELSE CancelBuildSteps)

mutexRest == <<jobVars, recordVars, procVars, readerVars, cancelVars, logs,
               epc, failMsg, waitErr, cmdProcess, streamVars, chatVars,
               zipVars, options, args, clock, creating, buildLogRows,
               joinMode, joinProc, streamOpen, unread, queued, joinReader,
               joined, finalized, turnAt, sharedDir, remoteZip>>

\* s.buildMutex.Lock()
Lock(t) ==
    /\ Stmt(t) = "Lock"
    /\ buildMutex = Null
    /\ buildMutex' = Some(t)
    /\ at' = [at EXCEPT ![t] = @ + 1]
    /\ UNCHANGED <<activeBuilds, exists, mutexRest>>

\* s.activeBuilds[id] = cmd; delete(s.activeBuilds, id);
\* cmd, exists := s.activeBuilds[id]
MapAccess(t) ==
    /\ Stmt(t) \in {"insert", "delete", "read"}
    /\ activeBuilds' = CASE Stmt(t) = "insert" -> activeBuilds \cup {"job"}
                         [] Stmt(t) = "delete" -> activeBuilds \ {"job"}
                         [] OTHER -> activeBuilds
    /\ exists' = IF Stmt(t) = "read"
                 THEN [exists EXCEPT ![t] = "job" \in activeBuilds]
                 ELSE exists
    /\ at' = [at EXCEPT ![t] = @ + 1]
    /\ UNCHANGED <<buildMutex, mutexRest>>

\* s.buildMutex.Unlock(); in CancelBuild `if !exists { return ... }` follows.
Unlock(t) ==
    /\ Stmt(t) = "Unlock"
    /\ buildMutex' = buildMutex \ {t}
    /\ at' = [at EXCEPT ![t] = IF t # 0 /\ ~exists[t]
                                THEN Last(t) + 1 ELSE @ + 1]
    /\ UNCHANGED <<activeBuilds, exists, mutexRest>>

\* cmd.Start(), cmd.Wait(), cmd.Process.Kill(), database.DB.First / Save.
\* A failed Start goes to failBuild (its Save is the last statement of the
\* task); a failed Kill or First returns from CancelBuild.
IO(t) ==
    /\ Stmt(t) \in {"Start", "Wait", "Kill", "First", "Save"}
    /\ \E ok \in BOOLEAN :
           at' = [at EXCEPT ![t] =
                     IF ok \/ Stmt(t) \in {"Wait", "Save"} THEN @ + 1
                     ELSE IF t = 0 THEN Last(t)
                     ELSE Last(t) + 1]
    /\ UNCHANGED <<buildMutex, activeBuilds, exists, mutexRest>>

NextMutex ==
    \E t \in Goroutines : Lock(t) \/ MapAccess(t) \/ Unlock(t) \/ IO(t)

SpecMutex == Init /\ [][NextMutex]_vars


\* ========================================================= two-reader join
\* The join of the stdout and stderr readers, in executeBuild (a WaitGroup,
\* then cmd.Wait, then the final Save) and in StreamClaudeChat (the channel
\* done, received twice by the main loop, then cmd.Wait and the
\* finalization), with a process that may close either stream on its own
\* before it exits. The client of the turn stays connected.

joinRest == <<jobVars, recordVars, procVars, readerVars, cancelVars,
              taskVars, streamVars, chatVars, zipVars, options, args,
              clock, creating, buildLogRows, buildMutex, at, exists, turnAt,
              sharedDir, remoteZip>>

\* cmd.Start() and the two `go func()` readers.
JoinStart(m) ==
    /\ joinMode = "none"
    /\ joinMode' = m
    /\ joinProc' = "running"
    /\ joinReader' = [s \in Streams |-> "scan"]
    /\ UNCHANGED <<streamOpen, unread, queued, joined, finalized, joinRest>>

\* The process writes a line to a stream it has open; it blocks while the
\* pipe is full.
PipeWrite(s) ==
    /\ joinProc = "running"
    /\ s \in streamOpen
    /\ unread[s] < MaxUnread
    /\ unread' = [unread EXCEPT ![s] = @ + 1]
    /\ UNCHANGED <<joinMode, joinProc, streamOpen, queued, joinReader, joined,
                   finalized, joinRest>>

\* The process closes one of its streams and goes on running.
PipeClose(s) ==
    /\ joinProc = "running"
    /\ s \in streamOpen
    /\ streamOpen' = streamOpen \ {s}
    /\ UNCHANGED <<joinMode, joinProc, unread, queued, joinReader, joined,
                   finalized, joinRest>>

\* The process exits; the streams it still had open are closed with it.
PipeExit ==
    /\ joinProc = "running"
    /\ joinProc' = "exited"
    /\ UNCHANGED <<joinMode, streamOpen, unread, queued, joinReader, joined,
                   finalized, joinRest>>

\* scanner.Scan() returns a line. In executeBuild the reader logs it; in
\* StreamClaudeChat it sends it to outCh and blocks while outCh is full.
JoinScan(s) ==
    /\ joinReader[s] = "scan"
    /\ unread[s] > 0
    /\ joinMode = "turn" => queued < OutChCap
    /\ unread' = [unread EXCEPT ![s] = @ - 1]
    /\ queued' = IF joinMode = "turn" THEN queued + 1 ELSE queued
    /\ UNCHANGED <<joinMode, joinProc, streamOpen, joinReader, joined,
                   finalized, joinRest>>

\* A reader that returns without telling the joining task.
JoinEOFSilent(s) ==
    /\ joinReader[s] = "scan"
    /\ unread[s] = 0
    /\ s \notin streamOpen \/ joinProc = "exited"
    /\ joinReader' = [joinReader EXCEPT ![s] = "returned"]
    /\ UNCHANGED <<joinMode, joinProc, streamOpen, unread, queued, joined,
                   finalized, joinRest>>

\* scanner.Scan() returns false at the end of the stream. In executeBuild
\* the deferred wg.Done() runs and the reader returns; in StreamClaudeChat
\* the reader goes on to `done <- struct{}{}`, an unbuffered send.
JoinEOF(s) ==
    /\ joinReader[s] = "scan"
    /\ unread[s] = 0
    /\ s \notin streamOpen \/ joinProc = "exited"
    /\ IF joinMode = "job"
       THEN /\ joinReader' = [joinReader EXCEPT ![s] = "returned"]
            /\ joined' = joined + 1
       ELSE /\ joinReader' = [joinReader EXCEPT ![s] = "send_done"]
            /\ UNCHANGED joined
    /\ UNCHANGED <<joinMode, joinProc, streamOpen, unread, queued, finalized,
                   joinRest>>

\* The main loop of StreamClaudeChat: case l := <-outCh.
JoinRecvLine ==
    /\ joinMode = "turn"
    /\ ~finalized
    /\ queued > 0
    /\ queued' = queued - 1
    /\ UNCHANGED <<joinMode, joinProc, streamOpen, unread, joinReader, joined,
                   finalized, joinRest>>

\* The main loop of StreamClaudeChat: case <-done; readersClosed++.
JoinRecvDone ==
    /\ joinMode = "turn"
    /\ ~finalized
    /\ \E s \in Streams :
          /\ joinReader[s] = "send_done"
          /\ joinReader' = [joinReader EXCEPT ![s] = "returned"]
    /\ joined' = joined + 1
    /\ UNCHANGED <<joinMode, joinProc, streamOpen, unread, queued, finalized,
                   joinRest>>

\* wg.Wait() has returned, or readersClosed >= 2; cmd.Wait() returns once
\* the process has exited; the status is saved, or the complete event sent.
JoinFinalize ==
    /\ joinMode # "none"
    /\ ~finalized
    /\ joined >= 2
    /\ joinProc = "exited"
    /\ finalized' = TRUE
    /\ UNCHANGED <<joinMode, joinProc, streamOpen, unread, queued, joinReader,
                   joined, joinRest>>

NextJoin ==
    \/ \E m \in {"job", "turn"} : JoinStart(m)
    \/ \E s \in Streams : PipeWrite(s) \/ PipeClose(s)
    \/ PipeExit
    \/ \E s \in Streams : JoinScan(s) \/ JoinEOF(s)
    \/ JoinRecvLine
    \/ JoinRecvDone
    \/ JoinFinalize

\* The goroutines are scheduled: a reader or the joining task that can take
\* its next step takes it, and a select with a ready case is not starved of
\* it. Nothing is assumed of the process.
SpecJoin ==
    /\ Init
    /\ [][NextJoin]_vars
    /\ \A s \in Streams : WF_vars(JoinScan(s)) /\ WF_vars(JoinEOF(s))
    /\ WF_vars(JoinRecvLine)
    /\ WF_vars(JoinRecvDone)
    /\ WF_vars(JoinFinalize)


\* ======================================================= concurrent turns
\* StreamClaudeChat called concurrently for one project. workDir is the
\* LocalPath of the project's storage location, or the fallback path made of
\* the user and project identifiers: the same directory for every turn of
\* the project. Its content is a set: 0 stands for the files of the
\* snapshot, n for the files the tool of turn n has written.

turnRest == <<jobVars, recordVars, procVars, readerVars, cancelVars,
              taskVars, streamVars, chatVars, zipVars, options, args, clock,
              creating, buildLogRows, buildMutex, at, exists, joinMode,
              joinProc, streamOpen, unread, queued, joinReader, joined,
              finalized>>

\* os.MkdirAll(workDir); DownloadFile; utils.UnZipFile(tmpZip, workDir):
\* the snapshot is unpacked over whatever the directory holds.
TurnMaterialize(t) ==
    /\ turnAt[t] = "idle"
    /\ sharedDir' = Some(UNION sharedDir \cup remoteZip)
    /\ turnAt' = [turnAt EXCEPT ![t] = "ready"]
    /\ UNCHANGED <<remoteZip, turnRest>>

\* cmd.Dir = workDir; cmd.Start(), which fails when the directory is gone.
TurnSpawn(t) ==
    /\ turnAt[t] = "ready"
    /\ turnAt' = [turnAt EXCEPT ![t] = IF sharedDir = Null THEN "done"
                                        ELSE "running"]
    /\ UNCHANGED <<sharedDir, remoteZip, turnRest>>

\* The tool writes files into its working directory.
TurnToolWrites(t) ==
    /\ turnAt[t] = "running"
    /\ sharedDir # Null
    /\ sharedDir' = Some(UNION sharedDir \cup {t})
    /\ UNCHANGED <<turnAt, remoteZip, turnRest>>

\* The readers have ended and cmd.Wait() has returned.
TurnJoin(t) ==
    /\ turnAt[t] = "running"
    /\ turnAt' = [turnAt EXCEPT ![t] = "exited"]
    /\ UNCHANGED <<sharedDir, remoteZip, turnRest>>

\* utils.ZipFolder(workDir, tmpZip) and storage.UploadFile: the directory as
\* it is now becomes the snapshot; ZipFolder fails when it is gone.
TurnZip(t) ==
    /\ turnAt[t] = "exited"
    /\ remoteZip' = IF sharedDir = Null THEN remoteZip ELSE UNION sharedDir
    /\ turnAt' = [turnAt EXCEPT ![t] = "zipped"]
    /\ UNCHANGED <<sharedDir, turnRest>>

\* os.RemoveAll(workDir), then the complete event.
TurnCleanup(t) ==
    /\ turnAt[t] = "zipped"
    /\ sharedDir' = Null
    /\ turnAt' = [turnAt EXCEPT ![t] = "done"]
    /\ UNCHANGED <<remoteZip, turnRest>>

NextTurns ==
    \E t \in 1..MaxTurns :
        \/ TurnMaterialize(t)
        \/ TurnSpawn(t)
        \/ TurnToolWrites(t)
        \/ TurnJoin(t)
        \/ TurnZip(t)
        \/ TurnCleanup(t)

SpecTurns == Init /\ [][NextTurns]_vars

\* ================================================================ properties
Calls == 1..Len(returned)
Uncancelled == cpc = "idle" /\ returned = <<>>
StartSucceeded == cmdProcess = "set"
EmittedLines == {Line(s, n) : s \in Streams, n \in 1..MaxLines} \cap
                {l \in Streams \X (1..MaxLines) : l[2] <= emitted[l[1]]}
Holds(seq, x) == \E k \in 1..Len(seq) : seq[k] = x

\* C1: the persisted status changes only along pending->running,
\* running->completed, running->failed, running->cancelled or pending->failed;
\* in particular a completed, failed or cancelled status never changes again.
StatusEdges ==
    {<<BuildStatusPending, BuildStatusRunning>>,
     <<BuildStatusRunning, BuildStatusCompleted>>,
     <<BuildStatusRunning, BuildStatusFailed>>,
     <<BuildStatusRunning, BuildStatusCancelled>>,
     <<BuildStatusPending, BuildStatusFailed>>}
C1_StatusFollowsStateMachine ==
    [][(db.Status # "none" /\ db'.Status # db.Status)
         => <<db.Status, db'.Status>> \in StatusEdges]_vars

\* C2: when a CancelBuild call has killed the running process and returned
\* success, then once the execution task has returned the persisted status is
\* cancelled and the persisted exit code is not 0.
C2_CancelledStaysCancelled ==
    (epc = "done" /\ \E i \in Calls : returned[i].result = "ok" /\ returned[i].killedLive)
        => (db.Status = BuildStatusCancelled /\ db.ExitCode # Some(0))

\* C3: when the process cannot be started, the persisted status is never
\* running at any point of that execution.
C3_SpawnFailureSkipsRunning ==
    (epc \in {"fail", "done"} /\ failMsg \in {StartNotFound, StartCancelled})
        => BuildStatusRunning \notin seen

\* C4: of two successive CancelBuild calls, the first of which killed the
\* running process and returned success, the second returns the not-running
\* error: it finds no handle, so it never goes on to the kill, and its result
\* is the not-running error.
C4_SecondCancelNotRunning ==
    (Len(returned) >= 1 /\ returned[1].killedLive /\ returned[1].result = "ok")
        => /\ cpc = "idle"
           /\ Len(returned) >= 2 => returned[2].result = "not_running"

\* C5: once the execution task has returned, activeBuilds holds no entry for
\* the job, on every exit path.
C5_NoHandleAfterReturn ==
    epc = "done" => "job" \notin activeBuilds

\* C6: the persisted row carries a process id exactly when starting the
\* process succeeded (and the execution task has stored it); a CancelBuild
\* call does not unset it.
C6_ProcessIdIffStarted ==
    db.Status # "none"
        => ((db.ProcessID # Null) <=> (StartSucceeded /\ epc # "save_pid"))

\* C7: in every persisted row, status completed implies exit code 0, and
\* status failed with a started process implies a non-zero exit code and a
\* non-empty error, CancelBuild interleaving or not.
C7_StatusMatchesExitCode ==
    /\ db.Status = BuildStatusCompleted => db.ExitCode = Some(0)
    /\ (db.Status = BuildStatusFailed /\ StartSucceeded)
         => /\ db.ExitCode \notin {Null, Some(0)}
            /\ db.Error \notin {Null, Some("")}

\* C7 witness: the execution task has persisted failed for a started process
\* after a CancelBuild call wrote the row.
C7_Witness ==
    /\ db.Status = BuildStatusFailed
    /\ StartSucceeded
    /\ \E i \in Calls : returned[i].result = "ok"

\* C8: the job the creation call hands to its caller has status pending,
\* whatever the execution task has done meanwhile.
C8_CreationReturnsPending ==
    (hpc = "returned" /\ observed # "error") => observed = BuildStatusPending

\* C9: a job whose command can be run, that does not exit non-zero by itself
\* and that no CancelBuild call touches, ends completed with exit code 0 and
\* an output holding every line the process emitted.
C9_CleanRunCompletes ==
    (epc = "done" /\ intent = "argv" /\ Uncancelled
       /\ failMsg \notin SpawnErrors /\ exitStatus # Some(1))
        => /\ db.Status = BuildStatusCompleted
           /\ db.ExitCode = Some(0)
           /\ \A l \in EmittedLines : Holds(db.Output, l)

\* C10: the output buffer and the persisted row each have at most one writer
\* at any time: the two readers are never both inside WriteString, and no
\* CancelBuild call is about to save the row while the execution task, which
\* saves it too, is still running.
BufferWriters == {s \in Streams : rpc[s] = "write"}
RowWriters == {t \in {"exec", "cancel"} :
                 \/ t = "exec" /\ epc \notin {"idle", "done"}
                 \/ t = "cancel" /\ cpc = "save"}
C10_SingleWriter ==
    /\ Cardinality(BufferWriters) <= 1
    /\ Cardinality(RowWriters) <= 1

\* ------------------------------------------------ the job's output stream
CountOf(seq, name) == Cardinality({i \in 1..Len(seq) : seq[i].event = name})

\* C12: on StreamBuildOutput, for a client that stays connected, the first
\* event is build_status, build_complete is emitted exactly once (never twice,
\* and once by the time the handler has returned), it is emitted only after the
\* job has reached a terminal status, and no event follows it.
C12_CompleteOnceAfterTerminal ==
    sctx = "live" =>
      /\ events # <<>> => events[1].event = "build_status"
      /\ CountOf(events, "build_complete") <= 1
      /\ spc = "returned" => CountOf(events, "build_complete") = 1
      /\ \A i \in 1..Len(events) :
            events[i].event = "build_complete"
              => i = Len(events) /\ seen \cap Terminal # {}

\* C11: when the handler of a streaming connection returns because its client
\* has disconnected while the process is running, the process is running no
\* longer: for the build stream and for the interactive turn.
C11_DisconnectKillsProcess ==
    [][/\ (sexit # "disconnect" /\ sexit' = "disconnect" /\ proc = "running")
           => proc' # "running"
       /\ (kexit # "disconnect" /\ kexit' = "disconnect" /\ proc = "running")
           => proc' # "running"]_vars

\* ------------------------------------------------------ the interactive turn
SessionCarrying(e) ==
    e.event = "claude_response" /\ e.data \in {"response_sid", "json_sid"}
HasEvent(names) == \E i \in 1..Len(events) : events[i].event \in names

\* C13: every response event forwarded for a JSON object that carries a
\* session_id comes with a session-identified event for the same line, in the
\* build log stream and in the interactive turn.
C13_SessionEventForwarded ==
    \A i \in 1..Len(events) :
        SessionCarrying(events[i])
          => \E j \in 1..Len(events) : /\ events[j].event \in {"session_created",
                                                             "session-identified"}
                                        /\ events[j].id = events[i].id

\* C14: a turn whose tool ended with a non-zero exit and that has sent the
\* complete event has sent an error event before it.
C14_NonZeroExitReported ==
    (kexit = "complete" /\ exitStatus \notin {Null, Some(0)})
      => HasEvent({"claude_error", "error"})

\* C18: a turn whose packing or upload failed has sent exactly one
\* upload_error event, ends with the complete event, and leaves the project's
\* storage location as the turn found it.
C18_PersistFailureIsOneEvent ==
    (kexit = "complete" /\ persisted \in {"zip_failed", "upload_failed"})
      => /\ CountOf(events, "upload_error") = 1
         /\ events[Len(events)].event = "complete"
         /\ First(storageRow) = storageLoc
         /\ objectStore = {}
C18_Witness ==
    kexit = "complete" /\ persisted = "upload_failed"
                  /\ storageLoc.NetworkPath = "snapshot"

\* C19: after a turn whose upload succeeded for a project that had no snapshot
\* reference, the project has a storage location whose network path is the
\* uploaded location, whether or not it had a storage location before.
C19_SnapshotReferenceDurable ==
    (kexit = "complete" /\ persisted = "uploaded" /\ storageLoc.NetworkPath = "")
      => /\ storageRow # Null
         /\ First(storageRow).NetworkPath = getOrComposeNetworkPath(storageLoc)
         /\ First(storageRow).NetworkPath \in objectStore

\* C20: once the persistence step is over the working directory is removed,
\* whether packing and upload succeeded or failed, and the complete event is
\* sent only after the removal.
C20_WorkDirRemovedBeforeComplete ==
    /\ HasEvent({"complete"}) => ~workDir
    /\ kpc = "complete" => ~workDir
C20_Witness ==
    HasEvent({"complete"}) /\ persisted = "zip_failed" /\ ~workDir

\* ------------------------------------------------------------- snapshots
ArchiveEntries == {archive[i] : i \in 1..Len(archive)}
FileNames(es) == {e.name : e \in {x \in es : ~x.dir}}
InGit(name) == \E i \in 1..Len(name) : name[i] = ".git"
\* the regular files and directories of the working directory that are
\* neither version-control internals nor junk
Payload(fs) ==
    {n \in fs : /\ IsPrefix(Dest, n.path) /\ n.path # Dest
                /\ n.kind \in {"file", "dir"}
                /\ ~InGit(Rel(Dest, n.path))
                /\ Base(n.path) \notin Junk}

\* C15: once a snapshot with an entry that resolves outside the working
\* directory has been unpacked, UnZipFile has returned an error and nothing
\* exists outside the working directory.
C15_TraversalRejected ==
    (zpc # "idle"
     /\ \E f \in ArchiveEntries : ~IsPrefix(Dest, Clean(Dest \o f.name)))
      => /\ zerr = "error"
         /\ \A n \in fsys : IsPrefix(Dest, n.path)

\* C16: a snapshot that is unpacked, left untouched by the tool, committed
\* and packed gives an archive with the file paths of the snapshot.
C16_RoundTripKeepsFilePaths ==
    (zpc = "packed" /\ ~modified)
      => FileNames(outZip) = FileNames(ArchiveEntries)

\* C17: the archive ZipFolder writes has no entry inside .git and no junk
\* file, and has exactly one entry, under its relative path, for every other
\* regular file and directory of the working directory.
C17_PackSkipsVcsAndJunk ==
    zpc = "packed" =>
      /\ \A e \in outZip : ~InGit(e.name) /\ Base(e.name) \notin Junk
      /\ \A n \in Payload(fsys) :
            {e \in outZip : e.name = Rel(Dest, n.path)}
              = {[name |-> Rel(Dest, n.path), dir |-> n.kind = "dir"]}

\* C21: for options whose permission mode is plan, with skip-permissions not
\* set and no allowed or disallowed tool given, or with no tools settings at
\* all, the argument vector carries an --allowedTools flag for each tool of
\* the minimal list Read, Task, exit_plan_mode, TodoRead, TodoWrite.
C21_PlanModeToolsAlwaysAllowed ==
    \A a \in args :
        (/\ options.PermissionMode = "plan"
         /\ \A t \in options.ToolsSettings :
                /\ ~t.SkipPermissions
                /\ t.AllowedTools = <<>>
                /\ t.DisallowedTools = <<>>)
        => \A k \in 1..Len(planModeTools) :
               \E i \in 1..(Len(a) - 1) :
                   a[i] = "--allowedTools" /\ a[i + 1] = planModeTools[k]

\* C22: the log entries persisted for a job have non-decreasing timestamps
\* in the order in which they were inserted, also when the stdout reader,
\* the stderr reader and CancelBuild write concurrently.
C22_LogTimestampsNonDecreasing ==
    \A i, j \in 1..Len(buildLogRows) :
        i < j => buildLogRows[i] <= buildLogRows[j]

\* C24: every read, insert and delete on activeBuilds happens while
\* buildMutex is held by the goroutine doing it, and buildMutex is never
\* held by a goroutine while it starts, waits on or kills a process or makes
\* a database call.
C24_MutexScopedToMap ==
    [][\A t \in Goroutines :
          at'[t] # at[t] =>
              /\ Stmt(t) \in {"insert", "delete", "read"}
                     => buildMutex = Some(t)
              /\ Stmt(t) \in {"Start", "Wait", "Kill", "First", "Save"}
                     => t \notin buildMutex]_vars

\* The execution task has registered, started and unregistered its handle
\* and a CancelBuild call that found the handle has killed and returned.
C24_Witness ==
    /\ Stmt(0) = "return"
    /\ "job" \notin activeBuilds
    /\ \E t \in 1..MaxCallers : exists[t] /\ Stmt(t) = "return"

\* C23: if the process closes one of its output streams arbitrarily earlier
\* than the other and later exits, the join of the two readers completes and
\* the job or turn is finalized; neither reader stays blocked.
C23_JoinCompletes ==
    (joinProc = "exited")
        ~> (finalized /\ \A s \in Streams : joinReader[s] = "returned")

\* A job or turn is finalized whose process closed exactly one of its
\* streams itself, the other staying open until the exit.
C23_Witness ==
    /\ finalized
    /\ Cardinality(streamOpen) = 1

\* C25: the end of the HTTP request that created a job never causes the
\* job's process to be killed or its start to fail: while no CancelBuild call
\* has been made, the process is not killed and the start does not fail with
\* a cancelled context.
C25_RequestEndLeavesJobAlone ==
    Uncancelled => (exitStatus # Some(-1) /\ failMsg # StartCancelled)

\* C26: whenever CancelBuild has found a handle in activeBuilds, the process
\* of that handle has been started, so the kill has a process object to act
\* on; no handle is visible before the start succeeded or after it failed.
C26_VisibleHandleIsStarted ==
    (cpc = "kill" \/ (epc = "done" /\ "job" \in activeBuilds))
        => cmdProcess = "set"

\* C27: in StreamBuildOutput the update channel is closed exactly once over
\* the life of a stream and nothing is sent on it after it is closed: it is
\* never closed a second time, and no close of a closed channel or send on a
\* closed channel panics.
C27_ChannelClosedOnce ==
    closes <= 1 /\ ~crashed

\* C28: a client that stays connected until build_complete has received
\* every log entry persisted for the job exactly once and in timestamp order:
\* the identifiers of the log events it received, in order, are the
\* identifiers of the rows of build_logs, in order.
C28_EveryLogOnceInOrder ==
    (sctx = "live" /\ sexit = "complete")
        => LET sent == SelectSeq(events, LAMBDA e :
                           e.event \in {"build_log", "claude_response"})
           IN  [i \in 1..Len(sent) |-> sent[i].id]
                   = [i \in 1..Len(buildLogs) |-> buildLogs[i].ID]

\* C29: in StreamClaudeChat every non-empty line a reader has read is
\* forwarded as an event before the turn is finalized: when the main loop
\* has counted the second end-of-stream signal and goes on to finalize, no
\* non-empty line is left queued in outCh.
C29_NoQueuedLineDropped ==
    kpc = "wait" => \A i \in 1..Len(outCh) : outCh[i].text = ""

\* C30: two interactive turns running concurrently for the same project do
\* not interfere through the working directory: no turn re-unpacks, archives
\* or removes the working directory while the process of another turn is
\* running in it.
C30_TurnsDoNotShareWorkDir ==
    [][\A t, u \in 1..MaxTurns :
          (/\ t # u
           /\ turnAt'[t] # turnAt[t]
           /\ turnAt[t] \in {"idle", "exited", "zipped"})
          => turnAt[u] # "running"]_vars

====
